---------------------------- MODULE Spec2Model ----------------------------
(***************************************************************************)
(* The two batch asset generators of gemmology.dev:                        *)
(*   scripts/generate-all-assets.py     (SVG, STL, glTF, OBJ per preset)   *)
(*   scripts/generate-crystal-assets.py (SVG per preset, or placeholders)  *)
(* Strings the scripts compute on (display names, --formats, file stems)   *)
(* are sequences of one-character strings, so that lower(), strip(),       *)
(* split() and replace() are computed as Python computes them.  The        *)
(* external collaborators (preset database, CDL parser, geometry builder,  *)
(* exporters) are nondeterministic: every outcome they can report is a     *)
(* successor state.  An exporter that raises is taken to write no file.    *)
(***************************************************************************)
EXTENDS Integers, Sequences, FiniteSets, TLC

VARIABLES
    pc,             \* position of the running script
    exitCode,       \* process exit status, -1 while running
    imports,        \* "untried" | "ok" | "failed": outcome of the import block
    formats,        \* all-assets: parsed --formats list
    invalid,        \* all-assets: set(formats) - valid_formats
    preset_filter,  \* all-assets: --preset (<<>> when absent or empty)
    placeholder,    \* crystal-assets: --placeholder
    dirs,           \* directories created so far
    presets,        \* the selected preset names, in database order
    total,          \* len(presets)
    i,              \* 1-based index of the preset (or mineral) being processed
    j,              \* 1-based position in formats of the format being exported
    stats,          \* all-assets: fmt -> [success, failed]
    success,        \* crystal-assets: success counter
    failed,         \* crystal-assets: list of failed names
    files,          \* file system: path -> content
    lookups,        \* log of get_preset calls: <<[name, result]>>
    calls,          \* log of parser / geometry / exporter invocations
    summary,        \* the summary lines printed at the end
    name,           \* normalizer harness: the display name
    once,           \* normalizer harness: normalize_filename(name)
    twice           \* normalizer harness: normalize_filename(once)

vars == <<pc, exitCode, imports, formats, invalid, preset_filter, placeholder,
          dirs, presets, total, i, j, stats, success, failed, files, lookups,
          calls, summary, name, once, twice>>

---------------------------------------------------------------------------
\* Bounds of the model.
MaxPresets == 2
MaxFormats == 2
MaxNameLen == 3

---------------------------------------------------------------------------
\* Python string primitives on sequences of characters.

UpperCase == <<"A","B","C","D","E","F","G","H","I","J","K","L","M",
               "N","O","P","Q","R","S","T","U","V","W","X","Y","Z">>
LowerCase == <<"a","b","c","d","e","f","g","h","i","j","k","l","m",
               "n","o","p","q","r","s","t","u","v","w","x","y","z">>

Range(s) == {s[k] : k \in DOMAIN s}

\* the lower-case letter of each upper-case letter
ToLower ==
    [c \in Range(UpperCase) |->
        LowerCase[CHOOSE k \in DOMAIN UpperCase : UpperCase[k] = c]]

LowerChar(c) == IF c \in DOMAIN ToLower THEN ToLower[c] ELSE c

\* str.lower()
Lower(s) == [k \in 1..Len(s) |-> LowerChar(s[k])]

\* str.replace(old, new) for one-character old and new
ReplaceChar(s, old, new) ==
    [k \in 1..Len(s) |-> IF s[k] = old THEN new ELSE s[k]]

\* str.replace(old, "") for a one-character old
RemoveChar(s, old) == SelectSeq(s, LAMBDA c : c # old)

Whitespace == {" "}

RECURSIVE LStrip(_)
LStrip(s) == IF s # <<>> /\ Head(s) \in Whitespace THEN LStrip(Tail(s)) ELSE s

RECURSIVE RStrip(_)
RStrip(s) ==
    IF s # <<>> /\ s[Len(s)] \in Whitespace
    THEN RStrip(SubSeq(s, 1, Len(s) - 1)) ELSE s

\* str.strip()
Strip(s) == RStrip(LStrip(s))

RECURSIVE Split(_, _)
\* str.split(sep) for a one-character sep: always at least one entry
Split(s, sep) ==
    IF \A k \in DOMAIN s : s[k] # sep THEN <<s>>
    ELSE LET p == CHOOSE k \in DOMAIN s :
                      s[k] = sep /\ \A m \in 1..(k - 1) : s[m] # sep
         IN  <<SubSeq(s, 1, p - 1)>> \o Split(SubSeq(s, p + 1, Len(s)), sep)

RECURSIVE Join(_, _)
\* sep.join(list)
Join(ss, sep) ==
    IF ss = <<>> THEN <<>>
    ELSE IF Len(ss) = 1 THEN ss[1]
    ELSE ss[1] \o sep \o Join(Tail(ss), sep)

\* needle in hay
Contains(hay, needle) ==
    \E k \in 0..(Len(hay) - Len(needle)) :
        SubSeq(hay, k + 1, k + Len(needle)) = needle

\* seq[:n]
Take(s, n) == SubSeq(s, 1, IF Len(s) < n THEN Len(s) ELSE n)

\* number of occurrences of x in a list
Count(s, x) == Cardinality({k \in DOMAIN s : s[k] = x})

\* all sequences over S of length lo..hi
SeqsOf(S, lo, hi) == UNION {[1..n -> S] : n \in lo..hi}

---------------------------------------------------------------------------
\* generate-all-assets.py: constants and pure functions.

SVG  == <<"s","v","g">>
STL  == <<"s","t","l">>
GLTF == <<"g","l","t","f">>
OBJ  == <<"o","b","j">>

valid_formats == {SVG, STL, GLTF, OBJ}

\* OUTPUT_DIRS[fmt], relative to the repository root
OUTPUT_DIRS(fmt) ==
    CASE fmt = SVG  -> "public/crystals"
      [] fmt = STL  -> "public/models/stl"
      [] fmt = GLTF -> "public/models/gltf"
      [] fmt = OBJ  -> "public/models/obj"

\* the extension each branch of the format loop writes
Extension(fmt) ==
    CASE fmt = SVG  -> "svg"
      [] fmt = STL  -> "stl"
      [] fmt = GLTF -> "glb"
      [] fmt = OBJ  -> "obj"

\* a mutant: the apostrophe is replaced by a space instead of being removed
normalize_filename_apostrophe_to_space(n) ==
    RemoveChar(RemoveChar(ReplaceChar(ReplaceChar(Lower(n), " ", "-"), "'", " "),
                          "("), ")")

normalize_filename(n) ==
    RemoveChar(RemoveChar(RemoveChar(ReplaceChar(Lower(n), " ", "-"), "'"),
                          "("), ")")

\* formats = [f.strip().lower() for f in args.formats.split(",")]
ParseFormats(arg) ==
    LET parts == Split(arg, ",")
    IN  [k \in 1..Len(parts) |-> Lower(Strip(parts[k]))]

\* a mutant: the run is refused only when no requested format is valid
InvalidFormats_only_if_none_valid(fs) ==
    IF Range(fs) \cap valid_formats = {} THEN Range(fs) \ valid_formats ELSE {}

\* invalid = set(formats) - valid_formats
InvalidFormats(fs) == Range(fs) \ valid_formats

\* presets = [p for p in presets if preset_filter.lower() in p.lower()]
SelectPresets(db, flt) ==
    IF flt = <<>> THEN db
    ELSE SelectSeq(db, LAMBDA p : Contains(Lower(p), Lower(flt)))

\* stats = {fmt: {"success": 0, "failed": []} for fmt in formats}
InitStats(fs) == [f \in Range(fs) |-> [success |-> 0, failed |-> <<>>]]

\* writing a file creates it or replaces its content
WriteFile(fsys, path, content) ==
    [p \in DOMAIN fsys \cup {path} |-> IF p = path THEN content ELSE fsys[p]]

NoFiles == [p \in {} |-> 0]
NoStats == [f \in {} |-> 0]

---------------------------------------------------------------------------
\* Inputs: what the command line and the preset database may supply.

\* entries of a --formats value as typed
RawEntries == {<<" ","S","V","G"," ">>, <<"S","t","l">>, <<"p","n","g">>, <<>>}

\* the default of --formats
DefaultFormats == Join(<<SVG, STL, GLTF, OBJ>>, <<",">>)

\* every --formats value of at most MaxFormats entries, and the default
FormatArgs ==
    {Join(es, <<",">>) : es \in SeqsOf(RawEntries, 1, MaxFormats)}
        \cup {DefaultFormats}

\* --preset values: absent, or a substring
Filters == {<<>>, <<"B">>}

LapisLazuliVar == <<"L","a","p","i","s"," ","L","a","z","u","l","i"," ",
                    "(","V","a","r",".",")">>

\* the display names a database may hold, in the database's order
Catalogue == <<<<"A","b">>, <<"a","(","b",")">>, LapisLazuliVar>>

Position(n) == CHOOSE k \in DOMAIN Catalogue : Catalogue[k] = n

\* list_presets(): at most MaxPresets names of the catalogue, in its order
Databases ==
    {s \in SeqsOf(Range(Catalogue), 0, MaxPresets) :
        \A a, b \in DOMAIN s : a < b => Position(s[a]) < Position(s[b])}

\* get_preset(name): no preset, a preset without CDL, a preset with CDL
LookupResults == {"none", "nocdl", "cdl"}

Call(fn, n, fmt, pos, ok) ==
    [fn |-> fn, name |-> n, fmt |-> fmt, pos |-> pos, ok |-> ok]

Path(dir, stem, ext) == [dir |-> dir, stem |-> stem, ext |-> ext]

Content(kind, n) == [kind |-> kind, of |-> n]

---------------------------------------------------------------------------
\* Initial state: the process has started, nothing has run.

\* everything but the position and the normalizer's input
Boot ==
    /\ exitCode = -1
    /\ imports = "untried"
    /\ formats = <<>>
    /\ invalid = {}
    /\ preset_filter = <<>>
    /\ placeholder = FALSE
    /\ dirs = {}
    /\ presets = <<>>
    /\ total = 0
    /\ i = 0
    /\ j = 0
    /\ stats = NoStats
    /\ success = 0
    /\ failed = <<>>
    /\ files = NoFiles
    /\ lookups = <<>>
    /\ calls = {}
    /\ summary = <<>>
    /\ once = <<>>
    /\ twice = <<>>

Init ==
    /\ Boot
    /\ pc = "main"
    /\ name = <<>>

harness == <<name, once, twice>>
crystalOnly == <<placeholder, success, failed>>
allOnly == <<formats, invalid, preset_filter, stats, j>>

---------------------------------------------------------------------------
\* generate-all-assets.py

\* __main__: parse the arguments, validate the formats
Main ==
    /\ pc = "main"
    /\ \E arg \in FormatArgs, flt \in Filters :
          /\ formats' = ParseFormats(arg)
          /\ preset_filter' = flt
          /\ invalid' = InvalidFormats(formats')
          /\ IF invalid' # {}
             THEN pc' = "exited" /\ exitCode' = 1
             ELSE pc' = "generate" /\ exitCode' = exitCode
    /\ UNCHANGED <<imports, dirs, presets, total, i, j, stats, files, lookups,
                   calls, summary>>
    /\ UNCHANGED <<crystalOnly, harness>>

\* generate_assets: an import fails, sys.exit(1)
ImportError ==
    /\ pc = "generate"
    /\ imports' = "failed"
    /\ pc' = "exited"
    /\ exitCode' = 1
    /\ UNCHANGED <<formats, invalid, preset_filter, dirs, presets, total, i, j,
                   stats, files, lookups, calls, summary>>
    /\ UNCHANGED <<crystalOnly, harness>>

\* generate_assets: imports succeed; directories, preset list, stats
Setup ==
    /\ pc = "generate"
    /\ imports' = "ok"
    /\ dirs' = dirs \cup {OUTPUT_DIRS(formats[k]) : k \in DOMAIN formats}
    /\ \E db \in Databases : presets' = SelectPresets(db, preset_filter)
    /\ total' = Len(presets')
    /\ stats' = InitStats(formats)
    /\ i' = 1
    /\ pc' = "loop"
    /\ UNCHANGED <<exitCode, formats, invalid, preset_filter, j, files, lookups,
                   calls, summary>>
    /\ UNCHANGED <<crystalOnly, harness>>

\* a mutant: the skip branch lacks its continue and goes on to parse
SkipPreset_falls_through ==
    /\ pc = "loop"
    /\ i <= total
    /\ \E r \in LookupResults \ {"cdl"} :
          lookups' = Append(lookups, [name |-> presets[i], result |-> r])
    /\ calls' = calls \cup {Call("parse_cdl", presets[i], <<>>, 0, TRUE),
                            Call("cdl_to_geometry", presets[i], <<>>, 0, TRUE)}
    /\ j' = 1
    /\ pc' = "export"
    /\ UNCHANGED <<exitCode, imports, formats, invalid, preset_filter, dirs,
                   presets, total, i, stats, files, summary>>
    /\ UNCHANGED <<crystalOnly, harness>>

\* the preset is missing or has no CDL: SKIP, continue
SkipPreset ==
    /\ pc = "loop"
    /\ i <= total
    /\ \E r \in LookupResults \ {"cdl"} :
          lookups' = Append(lookups, [name |-> presets[i], result |-> r])
    /\ i' = i + 1
    /\ UNCHANGED <<pc, exitCode, imports, formats, invalid, preset_filter, dirs,
                   presets, total, j, stats, files, calls, summary>>
    /\ UNCHANGED <<crystalOnly, harness>>

RECURSIVE GeometryFailed(_, _, _)
\* for fmt in formats: stats[fmt]["failed"].append(name)
GeometryFailed(st, fs, n) ==
    IF fs = <<>> THEN st
    ELSE GeometryFailed([st EXCEPT ![Head(fs)].failed = Append(@, n)],
                        Tail(fs), n)

\* a mutant: the exception of parse_cdl is not caught and ends the run
GeometryError_uncaught ==
    /\ pc = "loop"
    /\ i <= total
    /\ lookups' = Append(lookups, [name |-> presets[i], result |-> "cdl"])
    /\ calls' = calls \cup {Call("parse_cdl", presets[i], <<>>, 0, FALSE)}
    /\ pc' = "exited"
    /\ exitCode' = 1
    /\ UNCHANGED <<imports, formats, invalid, preset_filter, dirs, presets,
                   total, i, j, stats, files, summary>>
    /\ UNCHANGED <<crystalOnly, harness>>

\* parse_cdl or cdl_to_geometry raises: the preset fails for every format
GeometryError ==
    /\ pc = "loop"
    /\ i <= total
    /\ lookups' = Append(lookups, [name |-> presets[i], result |-> "cdl"])
    /\ \/ calls' = calls \cup {Call("parse_cdl", presets[i], <<>>, 0, FALSE)}
       \/ calls' = calls \cup {Call("parse_cdl", presets[i], <<>>, 0, TRUE),
                               Call("cdl_to_geometry", presets[i], <<>>, 0, FALSE)}
    /\ stats' = GeometryFailed(stats, formats, presets[i])
    /\ i' = i + 1
    /\ UNCHANGED <<pc, exitCode, imports, formats, invalid, preset_filter, dirs,
                   presets, total, j, files, summary>>
    /\ UNCHANGED <<crystalOnly, harness>>

\* the description parses and the geometry builds: enter the format loop
GeometryBuilt ==
    /\ pc = "loop"
    /\ i <= total
    /\ lookups' = Append(lookups, [name |-> presets[i], result |-> "cdl"])
    /\ calls' = calls \cup {Call("parse_cdl", presets[i], <<>>, 0, TRUE),
                            Call("cdl_to_geometry", presets[i], <<>>, 0, TRUE)}
    /\ j' = 1
    /\ pc' = "export"
    /\ UNCHANGED <<exitCode, imports, formats, invalid, preset_filter, dirs,
                   presets, total, i, stats, files, summary>>
    /\ UNCHANGED <<crystalOnly, harness>>

\* the position after format j of the current preset: the next format, or
\* the next preset
NextFormat ==
    IF j < Len(formats)
    THEN j' = j + 1 /\ UNCHANGED <<pc, i>>
    ELSE j' = 0 /\ pc' = "loop" /\ i' = i + 1

\* stats[fmt]["success"] += 1
ExportSucceeded(st, fmt) == [st EXCEPT ![fmt].success = @ + 1]

\* the exporter of formats[j] writes its file
ExportOk ==
    /\ pc = "export"
    /\ LET fmt == formats[j]
           filename == normalize_filename(presets[i])
       IN  /\ calls' = calls \cup {Call("export", presets[i], fmt, j, TRUE)}
           /\ files' = WriteFile(files,
                                 Path(OUTPUT_DIRS(fmt), filename, Extension(fmt)),
                                 Content(Extension(fmt), presets[i]))
           /\ stats' = ExportSucceeded(stats, fmt)
    /\ NextFormat
    /\ UNCHANGED <<exitCode, imports, formats, invalid, preset_filter, dirs,
                   presets, total, lookups, summary>>
    /\ UNCHANGED <<crystalOnly, harness>>

\* a mutant: an export failure is recorded against every requested format
ExportFailed_all_formats(st, fmt, n) ==
    [f \in DOMAIN st |-> [st[f] EXCEPT !.failed = Append(@, n)]]

\* stats[fmt]["failed"].append(name)
ExportFailed(st, fmt, n) == [st EXCEPT ![fmt].failed = Append(@, n)]

\* the exporter of formats[j] raises: recorded, the format loop goes on
ExportError ==
    /\ pc = "export"
    /\ LET fmt == formats[j]
       IN  /\ calls' = calls \cup {Call("export", presets[i], fmt, j, FALSE)}
           /\ stats' = ExportFailed(stats, fmt, presets[i])
    /\ NextFormat
    /\ UNCHANGED <<exitCode, imports, formats, invalid, preset_filter, dirs,
                   presets, total, files, lookups, summary>>
    /\ UNCHANGED <<crystalOnly, harness>>

\* how many failed names a summary line shows
FailedShown == 5

\* the summary line of one format
SummaryLine(fmt) ==
    [fmt |-> fmt, success |-> stats[fmt].success, total |-> total,
     failed |-> Take(stats[fmt].failed, FailedShown),
     more |-> Len(stats[fmt].failed) > FailedShown]

\* the loop is over: print the summary, return, exit 0
Summary ==
    /\ pc = "loop"
    /\ i > total
    /\ summary' = [k \in 1..Len(formats) |-> SummaryLine(formats[k])]
    /\ pc' = "exited"
    /\ exitCode' = 0
    /\ UNCHANGED <<imports, formats, invalid, preset_filter, dirs, presets,
                   total, i, j, stats, files, lookups, calls>>
    /\ UNCHANGED <<crystalOnly, harness>>

Next ==
    \/ Main
    \/ ImportError
    \/ Setup
    \/ SkipPreset
    \/ GeometryError
    \/ GeometryBuilt
    \/ ExportOk
    \/ ExportError
    \/ Summary

Spec == Init /\ [][Next]_vars

\* the script runs to its end: no step is delayed forever
FairSpec == Spec /\ WF_vars(Next)

---------------------------------------------------------------------------
\* generate-crystal-assets.py

\* OUTPUT_DIR, relative to the repository root
OUTPUT_DIR == "public/crystals"

\* filename = name.lower().replace(" ", "-").replace("'", "")
crystal_filename(n) == RemoveChar(ReplaceChar(Lower(n), " ", "-"), "'")

\* the hard-coded list of generate_placeholder_assets
minerals ==
    <<
       <<"a","l","e","x","a","n","d","r","i","t","e">>,
       <<"a","l","m","a","n","d","i","n","e">>,
       <<"a","m","a","z","o","n","i","t","e">>,
       <<"a","m","e","t","h","y","s","t">>,
       <<"a","n","d","a","l","u","s","i","t","e">>,
       <<"a","p","a","t","i","t","e">>,
       <<"a","q","u","a","m","a","r","i","n","e">>,
       <<"b","e","r","y","l">>,
       <<"c","a","l","c","i","t","e">>,
       <<"c","a","r","n","e","l","i","a","n">>,
       <<"c","h","r","y","s","o","b","e","r","y","l">>,
       <<"c","h","r","y","s","o","p","r","a","s","e">>,
       <<"c","i","t","r","i","n","e">>,
       <<"d","e","m","a","n","t","o","i","d">>,
       <<"d","i","a","m","o","n","d">>,
       <<"d","i","o","p","s","i","d","e">>,
       <<"e","m","e","r","a","l","d">>,
       <<"e","p","i","d","o","t","e">>,
       <<"f","l","u","o","r","i","t","e">>,
       <<"g","a","r","n","e","t">>,
       <<"g","r","o","s","s","u","l","a","r">>,
       <<"h","e","l","i","o","d","o","r">>,
       <<"h","e","s","s","o","n","i","t","e">>,
       <<"h","i","d","d","e","n","i","t","e">>,
       <<"i","o","l","i","t","e">>,
       <<"j","a","d","e","i","t","e">>,
       <<"k","u","n","z","i","t","e">>,
       <<"k","y","a","n","i","t","e">>,
       <<"l","a","b","r","a","d","o","r","i","t","e">>,
       <<"l","a","p","i","s","-","l","a","z","u","l","i">>,
       <<"m","a","l","a","c","h","i","t","e">>,
       <<"m","o","o","n","s","t","o","n","e">>,
       <<"m","o","r","g","a","n","i","t","e">>,
       <<"n","e","p","h","r","i","t","e">>,
       <<"o","p","a","l">>,
       <<"o","r","t","h","o","c","l","a","s","e">>,
       <<"p","e","r","i","d","o","t">>,
       <<"p","y","r","o","p","e">>,
       <<"q","u","a","r","t","z">>,
       <<"r","h","o","d","o","l","i","t","e">>,
       <<"r","u","b","y">>,
       <<"s","a","p","p","h","i","r","e">>,
       <<"s","c","a","p","o","l","i","t","e">>,
       <<"s","p","h","e","n","e">>,
       <<"s","p","e","s","s","a","r","t","i","n","e">>,
       <<"s","p","i","n","e","l">>,
       <<"s","p","o","d","u","m","e","n","e">>,
       <<"s","u","n","s","t","o","n","e">>,
       <<"t","a","n","z","a","n","i","t","e">>,
       <<"t","o","p","a","z">>,
       <<"t","o","u","r","m","a","l","i","n","e">>,
       <<"t","s","a","v","o","r","i","t","e">>,
       <<"t","u","r","q","u","o","i","s","e">>,
       <<"z","i","r","c","o","n">>,
       <<"z","o","i","s","i","t","e">>,
       <<"r","o","s","e","-","q","u","a","r","t","z">>,
       <<"s","m","o","k","y","-","q","u","a","r","t","z">>,
       <<"s","t","a","r","-","r","u","b","y">>,
       <<"s","t","a","r","-","s","a","p","p","h","i","r","e">>,
       <<"c","a","t","s","-","e","y","e","-","c","h","r","y","s","o","b","e","r","y","l">>,
       <<"p","a","d","p","a","r","a","d","s","c","h","a">>,
       <<"p","a","r","a","i","b","a","-","t","o","u","r","m","a","l","i","n","e">>,
       <<"w","a","t","e","r","m","e","l","o","n","-","t","o","u","r","m","a","l","i","n","e">>,
       <<"r","u","b","e","l","l","i","t","e">>,
       <<"i","n","d","i","c","o","l","i","t","e">>,
       <<"p","y","r","i","t","e">>,
       <<"m","a","g","n","e","t","i","t","e">>,
       <<"g","a","l","e","n","a">>,
       <<"c","o","r","u","n","d","u","m">>,
       <<"h","e","m","a","t","i","t","e">>,
       <<"c","i","n","n","a","b","a","r">>,
       <<"r","u","t","i","l","e">>,
       <<"c","a","s","s","i","t","e","r","i","t","e">>,
       <<"v","e","s","u","v","i","a","n","i","t","e">>,
       <<"o","l","i","v","i","n","e">>,
       <<"b","a","r","i","t","e">>,
       <<"c","e","l","e","s","t","i","n","e">>,
       <<"g","y","p","s","u","m">>,
       <<"r","e","a","l","g","a","r">>,
       <<"o","r","p","i","m","e","n","t">>
    >>

\* __main__: --placeholder selects the placeholder generator
CrystalMain ==
    /\ pc = "main"
    /\ \E flag \in BOOLEAN :
          /\ placeholder' = flag
          /\ pc' = IF flag THEN "placeholder" ELSE "generate"
    /\ UNCHANGED <<exitCode, imports, dirs, presets, total, i, success, failed,
                   files, lookups, calls, summary>>
    /\ UNCHANGED <<allOnly, harness>>

\* generate_assets: an import fails; the handler calls sys.exit(1), and the
\* SystemExit it raises is no ImportError, so it passes the except clause of
\* __main__ and ends the process
CrystalImportError ==
    /\ pc = "generate"
    /\ imports' = "failed"
    /\ pc' = "exited"
    /\ exitCode' = 1
    /\ UNCHANGED <<placeholder, dirs, presets, total, i, success, failed, files,
                   lookups, calls, summary>>
    /\ UNCHANGED <<allOnly, harness>>

\* generate_assets: imports succeed; directory, preset list, counters
CrystalSetup ==
    /\ pc = "generate"
    /\ imports' = "ok"
    /\ dirs' = dirs \cup {OUTPUT_DIR}
    /\ \E db \in Databases : presets' = db
    /\ total' = Len(presets')
    /\ success' = 0
    /\ failed' = <<>>
    /\ i' = 1
    /\ pc' = "loop"
    /\ UNCHANGED <<exitCode, placeholder, files, lookups, calls, summary>>
    /\ UNCHANGED <<allOnly, harness>>

\* the preset is missing or has no CDL: SKIP, continue
CrystalSkip ==
    /\ pc = "loop"
    /\ i <= total
    /\ \E r \in LookupResults \ {"cdl"} :
          lookups' = Append(lookups, [name |-> presets[i], result |-> r])
    /\ i' = i + 1
    /\ UNCHANGED <<pc, exitCode, imports, placeholder, dirs, presets, total,
                   success, failed, files, calls, summary>>
    /\ UNCHANGED <<allOnly, harness>>

\* parse_cdl, cdl_to_geometry and generate_svg all return: the SVG is written
CrystalRendered ==
    /\ pc = "loop"
    /\ i <= total
    /\ lookups' = Append(lookups, [name |-> presets[i], result |-> "cdl"])
    /\ calls' = calls \cup {Call("parse_cdl", presets[i], <<>>, 0, TRUE),
                            Call("cdl_to_geometry", presets[i], <<>>, 0, TRUE),
                            Call("export", presets[i], SVG, 1, TRUE)}
    /\ files' = WriteFile(files,
                          Path(OUTPUT_DIR, crystal_filename(presets[i]), "svg"),
                          Content("svg", presets[i]))
    /\ success' = success + 1
    /\ i' = i + 1
    /\ UNCHANGED <<pc, exitCode, imports, placeholder, dirs, presets, total,
                   failed, summary>>
    /\ UNCHANGED <<allOnly, harness>>

\* one of the three calls raises: FAIL, the preset is appended to failed
CrystalFailed ==
    /\ pc = "loop"
    /\ i <= total
    /\ lookups' = Append(lookups, [name |-> presets[i], result |-> "cdl"])
    /\ \/ calls' = calls \cup {Call("parse_cdl", presets[i], <<>>, 0, FALSE)}
       \/ calls' = calls \cup {Call("parse_cdl", presets[i], <<>>, 0, TRUE),
                               Call("cdl_to_geometry", presets[i], <<>>, 0, FALSE)}
       \/ calls' = calls \cup {Call("parse_cdl", presets[i], <<>>, 0, TRUE),
                               Call("cdl_to_geometry", presets[i], <<>>, 0, TRUE),
                               Call("export", presets[i], SVG, 1, FALSE)}
    /\ failed' = Append(failed, presets[i])
    /\ i' = i + 1
    /\ UNCHANGED <<pc, exitCode, imports, placeholder, dirs, presets, total,
                   success, files, summary>>
    /\ UNCHANGED <<allOnly, harness>>

\* the loop is over: print the tally, return, exit 0
CrystalSummary ==
    /\ pc = "loop"
    /\ i > total
    /\ summary' = <<[fmt |-> SVG, success |-> success, total |-> total,
                     failed |-> failed, more |-> FALSE]>>
    /\ pc' = "exited"
    /\ exitCode' = 0
    /\ UNCHANGED <<imports, placeholder, dirs, presets, total, i, success,
                   failed, files, lookups, calls>>
    /\ UNCHANGED <<allOnly, harness>>

\* generate_placeholder_assets: create the directory
PlaceholderStart ==
    /\ pc = "placeholder"
    /\ dirs' = dirs \cup {OUTPUT_DIR}
    /\ i' = 1
    /\ pc' = "placeholder_loop"
    /\ UNCHANGED <<exitCode, imports, placeholder, presets, total, success,
                   failed, files, lookups, calls, summary>>
    /\ UNCHANGED <<allOnly, harness>>

\* generate_placeholder_assets: write the octahedron for minerals[i]
PlaceholderWrite ==
    /\ pc = "placeholder_loop"
    /\ i <= Len(minerals)
    /\ files' = WriteFile(files, Path(OUTPUT_DIR, minerals[i], "svg"),
                          Content("octahedron", <<>>))
    /\ i' = i + 1
    /\ UNCHANGED <<pc, exitCode, imports, placeholder, dirs, presets, total,
                   success, failed, lookups, calls, summary>>
    /\ UNCHANGED <<allOnly, harness>>

\* generate_placeholder_assets returns: exit 0
PlaceholderDone ==
    /\ pc = "placeholder_loop"
    /\ i > Len(minerals)
    /\ pc' = "exited"
    /\ exitCode' = 0
    /\ UNCHANGED <<imports, placeholder, dirs, presets, total, i, success,
                   failed, files, lookups, calls, summary>>
    /\ UNCHANGED <<allOnly, harness>>

CrystalNext ==
    \/ CrystalMain
    \/ CrystalImportError
    \/ CrystalSetup
    \/ CrystalSkip
    \/ CrystalRendered
    \/ CrystalFailed
    \/ CrystalSummary
    \/ PlaceholderStart
    \/ PlaceholderWrite
    \/ PlaceholderDone

CrystalSpec == Init /\ [][CrystalNext]_vars

---------------------------------------------------------------------------
\* normalize_filename applied to a display name, then to its own result.

\* the characters display names are drawn from
NameChars == {"A", "b", " ", "-", "'", "(", ")"}

Names == SeqsOf(NameChars, 0, MaxNameLen)

\* the display name is the input
NormInit ==
    /\ Boot
    /\ pc = "named"
    /\ name \in Names

\* filename = normalize_filename(name)
NormalizeOnce ==
    /\ pc = "named"
    /\ once' = normalize_filename(name)
    /\ pc' = "normalized"
    /\ UNCHANGED <<exitCode, imports, dirs, presets, total, i, files, lookups,
                   calls, summary, name, twice>>
    /\ UNCHANGED <<allOnly, crystalOnly>>

\* normalize_filename(filename)
NormalizeTwice ==
    /\ pc = "normalized"
    /\ twice' = normalize_filename(once)
    /\ pc' = "renormalized"
    /\ UNCHANGED <<exitCode, imports, dirs, presets, total, i, files, lookups,
                   calls, summary, name, once>>
    /\ UNCHANGED <<allOnly, crystalOnly>>

NormNext ==
    \/ NormalizeOnce
    \/ NormalizeTwice

NormSpec == NormInit /\ [][NormNext]_vars

---------------------------------------------------------------------------
\* Properties.

\* the run has printed its summary and left with status zero
ExitedZero == pc = "exited" /\ exitCode = 0

\* the presets whose processing is over
Finished == {presets[k] : k \in (1..(i - 1)) \cap DOMAIN presets}

ExportCalls(n, fmt, ok) ==
    {c \in calls : c.fn = "export" /\ c.name = n /\ c.fmt = fmt /\ c.ok = ok}

\* the presets parse_cdl and cdl_to_geometry returned for
Built == {n \in Range(presets) :
             Call("cdl_to_geometry", n, <<>>, 0, TRUE) \in calls}

\* the presets parse_cdl or cdl_to_geometry raised for
Broken == {n \in Range(presets) :
              \/ Call("parse_cdl", n, <<>>, 0, FALSE) \in calls
              \/ Call("cdl_to_geometry", n, <<>>, 0, FALSE) \in calls}

\* the presets get_preset returned nothing, or no CDL, for
Skipped == {lookups[k].name : k \in {m \in DOMAIN lookups :
                                         lookups[m].result # "cdl"}}

FilesOf(n) == {p \in DOMAIN files : files[p].of = n}

NoDuplicates(s) == \A a, b \in DOMAIN s : a # b => s[a] # s[b]

\* the success count of a format is the number of its exporter's returns
SuccessIsReturns ==
    \A f \in DOMAIN stats :
        stats[f].success =
            Cardinality({c \in calls : c.fn = "export" /\ c.fmt = f /\ c.ok})

\* C1: for a preset whose geometry was built, a raising exporter is
\* recorded in the failed list of its own format only (the preset occurs in
\* the failed list of a format exactly as often as that format's exporter
\* raised for it), success counts are the exporters' returns, and once the
\* preset is finished every position of the format list was attempted.
C1_ExportFailureIsolated ==
    /\ \A n \in Built : \A f \in DOMAIN stats :
           Count(stats[f].failed, n) = Cardinality(ExportCalls(n, f, FALSE))
    /\ SuccessIsReturns
    /\ \A n \in Built \cap Finished : \A p \in DOMAIN formats :
           \E ok \in BOOLEAN : Call("export", n, formats[p], p, ok) \in calls

\* a finished run in which, for one preset, the exporter of one format
\* raised and the exporter of a later, different format returned
C1_Witness ==
    /\ ExitedZero
    /\ \E n \in Built : \E p, q \in DOMAIN formats :
           /\ p < q
           /\ formats[p] # formats[q]
           /\ Call("export", n, formats[p], p, FALSE) \in calls
           /\ Call("export", n, formats[q], q, TRUE) \in calls
           /\ stats[formats[p]].failed = <<n>>
           /\ stats[formats[q]].failed = <<>>

\* C2: a preset whose parsing or geometry failed occurs exactly once in the
\* failed list of every requested format, no exporter ran for it, no file
\* holds its output, and the loop went on to the next preset.
C2_GeometryFailureOnce ==
    /\ \A n \in Broken :
           /\ \A f \in DOMAIN stats : Count(stats[f].failed, n) = 1
           /\ \A c \in calls : c.name = n => c.fn # "export"
           /\ FilesOf(n) = {}
    /\ ExitedZero => Len(lookups) = total

\* C3: a preset that is missing or has no CDL is skipped: no parser,
\* geometry or exporter call names it, no file holds its output, it is in no
\* failed list and in no success count (success counts are exporter
\* returns), and every preset of the list is looked up, in order, by the end.
C3_SkippedUntouched ==
    /\ \A n \in Skipped :
           /\ \A c \in calls : c.name # n
           /\ FilesOf(n) = {}
           /\ \A f \in DOMAIN stats : Count(stats[f].failed, n) = 0
    /\ SuccessIsReturns
    /\ \A k \in DOMAIN lookups : lookups[k].name = presets[k]
    /\ ExitedZero => Len(lookups) = total

\* a finished run that skipped one preset and exported the next
C3_Witness ==
    /\ ExitedZero
    /\ \E k \in DOMAIN lookups :
           /\ lookups[k].result # "cdl"
           /\ k + 1 \in DOMAIN lookups
           /\ ExportCalls(lookups[k + 1].name, SVG, TRUE) # {}

\* C4: once the arguments are parsed, a format list with an entry outside
\* svg, stl, gltf, obj means the process has exited with status 1, and
\* nothing of generate_assets has happened: no import, no directory, no
\* preset listed or looked up, no collaborator called, no file.
C4_InvalidFormatExits ==
    (pc # "main" /\ \E k \in DOMAIN formats : formats[k] \notin valid_formats)
        => /\ pc = "exited"
           /\ exitCode = 1
           /\ imports = "untried"
           /\ dirs = {}
           /\ presets = <<>>
           /\ lookups = <<>>
           /\ calls = {}
           /\ DOMAIN files = {}

\* the process has exited on a list that holds a valid and an invalid entry
C4_Witness ==
    /\ pc = "exited"
    /\ \E a, b \in DOMAIN formats :
           formats[a] \in valid_formats /\ formats[b] \notin valid_formats

\* C5: once the imports have succeeded (the formats being valid), the run
\* ends with the summary printed, one line per requested format, and exit
\* status zero, having looked up every selected preset once, in order.
C5_RunCompletes ==
    (pc = "loop") ~>
        /\ ExitedZero
        /\ Len(summary) = Len(formats)
        /\ [k \in DOMAIN lookups |-> lookups[k].name] = presets

\* a finished run that met a skip or a geometry failure, and an export
\* failure
C5_Witness ==
    /\ ExitedZero
    /\ Len(summary) = Len(formats)
    /\ total >= 2
    /\ Skipped \cup Broken # {}
    /\ \E c \in calls : c.fn = "export" /\ ~c.ok

\* C8: after a run from empty directories, the directory of every requested
\* format holds as many files as the format counts successes (stated for
\* format lists that name no format twice).
C8_OneFilePerSuccess ==
    (ExitedZero /\ NoDuplicates(formats)) =>
        \A f \in DOMAIN stats :
            Cardinality({p \in DOMAIN files : p.dir = OUTPUT_DIRS(f)})
                = stats[f].success

\* C10: at the top of the preset loop, for every requested format, success
\* count + failed names + skipped presets = presets processed; no preset is
\* twice in a failed list; no preset is both a success and a failure of one
\* format.
C10_Accounting ==
    pc \in {"loop", "exited"} /\ imports = "ok" =>
        \A f \in DOMAIN stats :
            /\ stats[f].success + Len(stats[f].failed) + Cardinality(Skipped)
                   = Len(lookups)
            /\ stats[f].success + Len(stats[f].failed) <= total
            /\ NoDuplicates(stats[f].failed)
            /\ \A n \in Range(stats[f].failed) : ExportCalls(n, f, TRUE) = {}

\* C6: without --placeholder, when the imports fail, the process ends with
\* the octahedron written for every name of the mineral list, and the
\* preset database was never consulted.
C6_ImportFailureFallsBack ==
    (pc = "exited" /\ ~placeholder /\ imports = "failed") =>
        /\ \A k \in DOMAIN minerals :
               /\ Path(OUTPUT_DIR, minerals[k], "svg") \in DOMAIN files
               /\ files[Path(OUTPUT_DIR, minerals[k], "svg")].kind = "octahedron"
        /\ lookups = <<>>

\* C7: the stem of every file written for a preset is the preset's display
\* name lowercased, spaces turned to hyphens, apostrophes and parentheses
\* removed; it holds no apostrophe or parenthesis, and "Lapis Lazuli (Var.)"
\* gives "lapis-lazuli-var.".
C7_StemIsNormalizedName ==
    \A p \in DOMAIN files :
        files[p].kind # "octahedron" =>
            /\ p.stem = normalize_filename(files[p].of)
            /\ Range(p.stem) \cap {"'", "(", ")"} = {}
            /\ files[p].of = LapisLazuliVar =>
                   p.stem = <<"l","a","p","i","s","-","l","a","z","u","l","i",
                              "-","v","a","r",".">>

\* C9: normalizing a normalized name returns it unchanged.
C9_Idempotent == pc = "renormalized" => twice = once

\* a name with an upper-case letter, a space and an apostrophe or a
\* parenthesis has been normalized twice
C9_Witness ==
    /\ pc = "renormalized"
    /\ {"A", " "} \subseteq Range(name)
    /\ Range(name) \cap {"'", "(", ")"} # {}
    /\ once # name
=============================================================================
